---- MODULE Spec2Model ----
(***************************************************************************)
(* A model of the TOC generator plugin: the configuration parser           *)
(* (parseTocConfig, parseConfigValue), the normalizer (normalizeConfig,    *)
(* clampLevel), the hierarchy renderer (renderToc, stripChars) and the     *)
(* refresh protocol (registerToc, refreshTocForPath).                      *)
(*                                                                         *)
(* Text is modelled as a sequence of one-character strings, so that        *)
(* trimming, splitting, escaping and joining are computed, not assumed.    *)
(* JavaScript values are records [t, n, d, s, a]: t is the type tag, n/d a *)
(* rational number, s the characters of a string, a the elements of an     *)
(* array.                                                                  *)
(***************************************************************************)
EXTENDS Integers, Sequences, FiniteSets, TLC

VARIABLES
    docs,       \* the metadata cache: path -> heading levels, "changed" owed
    blocks,     \* the .sf-toc wrappers: instance -> DOM state of the code block
    renders,    \* renderToc calls suspended at the await of renderFigletForToc
    figletAPI,  \* window.figletAPI: "absent" or "present"
    log,        \* errors logged by the catch blocks, rejections left unhandled
    norm,       \* normalizeConfig: its input and its result
    strip,      \* stripChars: its input and its result
    parse,      \* parseTocConfig: its input and its result
    rt          \* renderToc's tree-reconstruction loop, step by step

vars == <<docs, blocks, renders, figletAPI, log, norm, strip, parse, rt>>

-----------------------------------------------------------------------------
(* Characters.                                                             *)

\* UTF-16 code units of the characters the model uses.
Code(c) ==
    CASE c = " "  -> 32
      [] c = "\"" -> 34
      [] c = "#"  -> 35
      [] c = "$"  -> 36
      [] c = "("  -> 40
      [] c = ")"  -> 41
      [] c = "*"  -> 42
      [] c = "+"  -> 43
      [] c = "'"  -> 39
      [] c = ","  -> 44
      [] c = "-"  -> 45
      [] c = "."  -> 46
      [] c = "0"  -> 48
      [] c = "1"  -> 49
      [] c = "2"  -> 50
      [] c = "3"  -> 51
      [] c = "4"  -> 52
      [] c = "5"  -> 53
      [] c = "6"  -> 54
      [] c = "7"  -> 55
      [] c = "8"  -> 56
      [] c = "9"  -> 57
      [] c = ":"  -> 58
      [] c = ">"  -> 62
      [] c = "?"  -> 63
      [] c = "["  -> 91
      [] c = "\\" -> 92
      [] c = "]"  -> 93
      [] c = "^"  -> 94
      [] c = "a"  -> 97
      [] c = "b"  -> 98
      [] c = "c"  -> 99
      [] c = "e"  -> 101
      [] c = "f"  -> 102
      [] c = "l"  -> 108
      [] c = "n"  -> 110
      [] c = "r"  -> 114
      [] c = "s"  -> 115
      [] c = "t"  -> 116
      [] c = "u"  -> 117
      [] c = "x"  -> 120
      [] c = "z"  -> 122
      [] c = "{"  -> 123
      [] c = "|"  -> 124
      [] c = "}"  -> 125
      [] c = "A"  -> 65
      [] c = "B"  -> 66
      [] c = "H"  -> 72
      [] c = "T"  -> 84
      [] OTHER    -> 0

IsDigit(c) == Code(c) >= 48 /\ Code(c) <= 57
DigitVal(c) == Code(c) - 48
IsSpace(c) == c \in {" ", "\t", "\n", "\r"}

DigitChars == <<"0", "1", "2", "3", "4", "5", "6", "7", "8", "9">>

\* String(n) for a non-negative integer: its decimal digits.
RECURSIVE Digits(_)
Digits(n) ==
    IF n < 10 THEN <<DigitChars[n + 1]>>
    ELSE Digits(n \div 10) \o <<DigitChars[(n % 10) + 1]>>

\* String.prototype.trim on the model's characters.
RECURSIVE TrimStart(_)
TrimStart(s) ==
    IF s # <<>> /\ IsSpace(Head(s)) THEN TrimStart(Tail(s)) ELSE s

RECURSIVE TrimEnd(_)
TrimEnd(s) ==
    IF s # <<>> /\ IsSpace(s[Len(s)]) THEN TrimEnd(SubSeq(s, 1, Len(s) - 1)) ELSE s

Trim(s) == TrimEnd(TrimStart(s))

\* String.prototype.toLowerCase on the model's characters.
LowerChar(c) ==
    CASE c = "A" -> "a"
      [] c = "B" -> "b"
      [] c = "H" -> "h"
      [] c = "T" -> "t"
      [] OTHER   -> c

ToLowerCase(s) == [i \in 1..Len(s) |-> LowerChar(s[i])]

\* a < b for two strings: by UTF-16 code units, a proper prefix first.
RECURSIVE StrLess(_, _)
StrLess(a, b) ==
    IF b = <<>> THEN FALSE
    ELSE IF a = <<>> THEN TRUE
    ELSE IF Code(Head(a)) # Code(Head(b)) THEN Code(Head(a)) < Code(Head(b))
    ELSE StrLess(Tail(a), Tail(b))

-----------------------------------------------------------------------------
(* JavaScript values.                                                      *)

JsUndef    == [t |-> "undef", n |-> 0, d |-> 1, s |-> <<>>, a |-> <<>>]
JsNull     == [t |-> "null",  n |-> 0, d |-> 1, s |-> <<>>, a |-> <<>>]
JsObj      == [t |-> "obj",   n |-> 0, d |-> 1, s |-> <<>>, a |-> <<>>]
JsFrac(n, d) == [t |-> "num", n |-> n, d |-> d, s |-> <<>>, a |-> <<>>]
JsNum(n)   == JsFrac(n, 1)
JsStr(s)   == [t |-> "str",   n |-> 0, d |-> 1, s |-> s,    a |-> <<>>]
JsBool(b)  == [t |-> "bool",  n |-> IF b THEN 1 ELSE 0, d |-> 1, s |-> <<>>, a |-> <<>>]
JsArr(a)   == [t |-> "arr",   n |-> 0, d |-> 1, s |-> <<>>, a |-> a]

\* A number as ToNumber gives it: NaN, or the rational n/d with d > 0.
NumNaN == [nan |-> TRUE, n |-> 0, d |-> 1]
NumOf(n, d) == [nan |-> FALSE, n |-> n, d |-> d]

\* The value of a run of decimal digits.
RECURSIVE DigitsValue(_)
DigitsValue(s) ==
    IF s = <<>> THEN 0
    ELSE 10 * DigitsValue(SubSeq(s, 1, Len(s) - 1)) + DigitVal(s[Len(s)])

RECURSIVE Pow10(_)
Pow10(k) == IF k = 0 THEN 1 ELSE 10 * Pow10(k - 1)

AllDigits(s) == s # <<>> /\ \A i \in 1..Len(s) : IsDigit(s[i])

\* The index of the first occurrence of c in s, 0 when there is none.
RECURSIVE IndexFrom(_, _, _)
IndexFrom(s, c, i) ==
    IF i > Len(s) THEN 0
    ELSE IF s[i] = c THEN i
    ELSE IndexFrom(s, c, i + 1)

IndexOf(s, c) == IndexFrom(s, c, 1)

\* A rational with the trailing zeros of its decimal fraction dropped.
RECURSIVE Reduce10(_, _)
Reduce10(n, d) ==
    IF d > 1 /\ n % 10 = 0 THEN Reduce10(n \div 10, d \div 10) ELSE <<n, d>>

\* A literal without its sign.
UnsignedBody(raw) == IF raw # <<>> /\ Head(raw) = "-" THEN Tail(raw) ELSE raw

\* \d+(\.\d+)? for a body whose first "." is at dot (0: none).
IsUnsignedLiteral(body, dot) ==
    IF dot = 0 THEN AllDigits(body)
    ELSE /\ AllDigits(SubSeq(body, 1, dot - 1))
         /\ AllDigits(SubSeq(body, dot + 1, Len(body)))

\* /^-?\d+(\.\d+)?$/.test(raw)
IsNumberLiteral(raw) ==
    IsUnsignedLiteral(UnsignedBody(raw), IndexOf(UnsignedBody(raw), "."))

\* The value of the digits ip before and fp after the decimal point.
MagnitudeOf(ip, fp) ==
    Reduce10(DigitsValue(ip) * Pow10(Len(fp)) + DigitsValue(fp), Pow10(Len(fp)))

UnsignedValue(body, dot) ==
    MagnitudeOf(IF dot = 0 THEN body ELSE SubSeq(body, 1, dot - 1),
                IF dot = 0 THEN <<>> ELSE SubSeq(body, dot + 1, Len(body)))

SignedValue(neg, r) == NumOf(IF neg THEN 0 - r[1] ELSE r[1], r[2])

\* Number(raw) for a raw value that matches the number pattern.
NumberOfLiteral(raw) ==
    SignedValue(raw # <<>> /\ Head(raw) = "-",
                UnsignedValue(UnsignedBody(raw), IndexOf(UnsignedBody(raw), ".")))

TrimmedToNumber(t) ==
    IF t = <<>> THEN NumOf(0, 1)
    ELSE IF IsNumberLiteral(t) THEN NumberOfLiteral(t)
    ELSE NumNaN

\* ToNumber of a string: whitespace trimmed, "" is 0, a decimal literal its
\* value, anything else NaN.
StringToNumber(s) == TrimmedToNumber(Trim(s))

\* The digits of n, padded on the left with zeros to the width of d - 1.
RECURSIVE FracDigits(_, _)
FracDigits(n, d) ==
    IF d = 1 THEN <<>> ELSE FracDigits(n \div 10, d \div 10) \o <<DigitChars[(n % 10) + 1]>>

UnsignedToString(mag, d) ==
    Digits(mag \div d) \o (IF d = 1 THEN <<>> ELSE <<".">> \o FracDigits(mag % d, d))

ReducedToString(r) ==
    IF r[1] < 0 THEN <<"-">> \o UnsignedToString(0 - r[1], r[2])
    ELSE UnsignedToString(r[1], r[2])

\* String(x) for a finite number n/d, d a power of ten.
NumToString(n, d) == ReducedToString(Reduce10(n, d))

\* String(v) for a scalar.
ScalarToString(v) ==
    CASE v.t = "str"   -> v.s
      [] v.t = "num"   -> NumToString(v.n, v.d)
      [] v.t = "nan"   -> <<"N", "a", "N">>
      [] v.t = "bool"  -> IF v.n = 1 THEN <<"t", "r", "u", "e">>
                          ELSE <<"f", "a", "l", "s", "e">>
      [] v.t = "undef" -> <<"u", "n", "d", "e", "f", "i", "n", "e", "d">>
      [] v.t = "null"  -> <<"n", "u", "l", "l">>
      [] OTHER         -> <<"[", "o", "b", "j", "e", "c", "t", " ",
                            "O", "b", "j", "e", "c", "t", "]">>

\* An element as Array.prototype.join gives it: "" for null and undefined.
ElementToString(v) ==
    IF v.t \in {"null", "undef"} THEN <<>> ELSE ScalarToString(v)

\* Array.prototype.join(",")
RECURSIVE ArrayToString(_)
ArrayToString(a) ==
    IF a = <<>> THEN <<>>
    ELSE IF Len(a) = 1 THEN ElementToString(a[1])
    ELSE ElementToString(a[1]) \o <<",">> \o ArrayToString(Tail(a))

\* String(v)
JsToString(v) == IF v.t = "arr" THEN ArrayToString(v.a) ELSE ScalarToString(v)

\* ToPrimitive: an array or an object becomes its string.
ToPrimitive(v) == IF v.t \in {"arr", "obj"} THEN JsStr(JsToString(v)) ELSE v

\* ToNumber, as the relational operators apply it to a primitive operand.
ToNumber(v) ==
    CASE v.t = "num"   -> NumOf(v.n, v.d)
      [] v.t = "bool"  -> NumOf(v.n, 1)
      [] v.t = "null"  -> NumOf(0, 1)
      [] v.t = "str"   -> StringToNumber(v.s)
      [] OTHER         -> NumNaN

NumLess(x, y) == ~x.nan /\ ~y.nan /\ x.n * y.d < y.n * x.d
NumGreaterEq(x, y) == ~x.nan /\ ~y.nan /\ x.n * y.d >= y.n * x.d

\* a < b for two primitives: two strings compare as strings, anything else
\* as numbers, and a comparison with NaN is false.
PrimLess(pa, pb) ==
    IF pa.t = "str" /\ pb.t = "str" THEN StrLess(pa.s, pb.s)
    ELSE NumLess(ToNumber(pa), ToNumber(pb))

\* a >= b for two primitives.
PrimGreaterEq(pa, pb) ==
    IF pa.t = "str" /\ pb.t = "str" THEN ~StrLess(pa.s, pb.s)
    ELSE NumGreaterEq(ToNumber(pa), ToNumber(pb))

\* a < b, a > b, a >= b
JsLess(a, b) == PrimLess(ToPrimitive(a), ToPrimitive(b))
JsGreater(a, b) == JsLess(b, a)
JsGreaterEq(a, b) == PrimGreaterEq(ToPrimitive(a), ToPrimitive(b))

\* The number NaN as a value.
JsNaN == [t |-> "nan", n |-> 0, d |-> 1, s |-> <<>>, a |-> <<>>]

NumberToValue(x) == IF x.nan THEN JsNaN ELSE JsFrac(x.n, x.d)

\* v + 1: a string, or an array or object (it becomes its string), gets
\* the character "1" appended; anything else is added to as a number.
PrimPlusOne(p) ==
    IF p.t = "str" THEN JsStr(p.s \o <<"1">>)
    ELSE IF ToNumber(p).nan THEN JsNaN
    ELSE JsFrac(ToNumber(p).n + ToNumber(p).d, ToNumber(p).d)

JsPlusOne(v) == PrimPlusOne(ToPrimitive(v))

\* v - 1: always a number.
PrimMinusOne(p) ==
    IF ToNumber(p).nan THEN JsNaN
    ELSE JsFrac(ToNumber(p).n - ToNumber(p).d, ToNumber(p).d)

JsMinusOne(v) == PrimMinusOne(ToPrimitive(v))

\* a ?? b
Coalesce(a, b) == IF a.t \in {"undef", "null"} THEN b ELSE a

\* ToBoolean
Truthy(v) ==
    CASE v.t \in {"undef", "null", "nan"} -> FALSE
      [] v.t = "bool" -> v.n = 1
      [] v.t = "num"  -> v.n # 0
      [] v.t = "str"  -> v.s # <<>>
      [] OTHER        -> TRUE

-----------------------------------------------------------------------------
(* ConfigNormalizer.                                                       *)

clampLevel(level) ==
    IF JsLess(level, JsNum(1)) THEN JsNum(1)
    ELSE IF JsGreater(level, JsNum(6)) THEN JsNum(6)
    ELSE level

\* A raw TocConfig: every key present, JsUndef for a key that was not set.
EmptyConfig ==
    [title |-> JsUndef, minLevel |-> JsUndef, maxLevel |-> JsUndef,
     numbered |-> JsUndef, shapes |-> JsUndef, remove_chars |-> JsUndef,
     figlet |-> JsUndef]

\* getDefaults(plugin): the defaults read from plugin.settings.
getDefaults(settings) ==
    [title |-> settings.defaultTitle,
     minLevel |-> settings.defaultMinLevel,
     maxLevel |-> settings.defaultMaxLevel,
     numbered |-> settings.defaultNumbered,
     shapes |-> settings.defaultShapes,
     remove_chars |-> JsArr(<<>>),
     figlet |-> JsUndef]

\* DEFAULT_SETTINGS of main.ts.
DEFAULT_SETTINGS ==
    [defaultTitle |-> JsStr(<<>>),
     defaultMinLevel |-> JsNum(1),
     defaultMaxLevel |-> JsNum(6),
     defaultNumbered |-> JsBool(FALSE),
     defaultShapes |-> JsArr(<<>>)]

\* if (normalized.minLevel > normalized.maxLevel) swap them
SwapIfReversed(lo, hi) == IF JsGreater(lo, hi) THEN <<hi, lo>> ELSE <<lo, hi>>

\* The normalized config, given the clamped and ordered level pair.
Normalized(config, defaults, levels) ==
    [title |-> Coalesce(config.title, defaults.title),
     minLevel |-> levels[1],
     maxLevel |-> levels[2],
     numbered |-> Coalesce(config.numbered, defaults.numbered),
     shapes |-> IF config.shapes.t = "arr" THEN config.shapes
                ELSE defaults.shapes,
     remove_chars |-> IF config.remove_chars.t = "arr" THEN config.remove_chars
                      ELSE defaults.remove_chars,
     figlet |-> config.figlet]

normalizeConfig(config, settings) ==
    Normalized(config, getDefaults(settings),
        SwapIfReversed(
            clampLevel(Coalesce(config.minLevel, getDefaults(settings).minLevel)),
            clampLevel(Coalesce(config.maxLevel, getDefaults(settings).maxLevel))))

-----------------------------------------------------------------------------
(* ConfigParser.                                                           *)

\* The first index >= i of s that holds no space, Len(s) + 1 when there is none.
RECURSIVE SkipSpaces(_, _)
SkipSpaces(s, i) ==
    IF i <= Len(s) /\ IsSpace(s[i]) THEN SkipSpaces(s, i + 1) ELSE i

\* The end of the run of number characters that starts at i.
RECURSIVE NumberEnd(_, _)
NumberEnd(s, i) ==
    IF i <= Len(s) /\ (IsDigit(s[i]) \/ s[i] \in {"-", "."})
    THEN NumberEnd(s, i + 1)
    ELSE i

StartsWithAt(s, i, w) ==
    /\ i + Len(w) - 1 <= Len(s)
    /\ SubSeq(s, i, i + Len(w) - 1) = w

JsonFail == [ok |-> FALSE, v |-> JsUndef, next |-> 0]
JsonOk(v, next) == [ok |-> TRUE, v |-> v, next |-> next]

\* A JSON string that opens at s[i] and closes at s[close] (0: unclosed).
JsonStringAt(s, i, close) ==
    IF close = 0 \/ IndexOf(SubSeq(s, i + 1, close - 1), "\\") # 0 THEN JsonFail
    ELSE JsonOk(JsStr(SubSeq(s, i + 1, close - 1)), close + 1)

\* A JSON number has no leading zero before another digit.
LeadingZero(mag) == Len(mag) > 1 /\ mag[1] = "0" /\ IsDigit(mag[2])

JsonNumberOf(num, next) == JsonOk(JsFrac(num.n, num.d), next)

\* A JSON number whose characters are lit, ending before s[next].
JsonNumberAt(lit, next) ==
    IF IsNumberLiteral(lit) /\ ~LeadingZero(UnsignedBody(lit))
    THEN JsonNumberOf(NumberOfLiteral(lit), next)
    ELSE JsonFail

\* JSON.parse of one scalar that starts at s[i]: a string without escapes, a
\* number, null, true or false. next is the index after it.
JsonScalarAt(s, i) ==
    IF i > Len(s) THEN JsonFail
    ELSE IF s[i] = "\"" THEN JsonStringAt(s, i, IndexFrom(s, "\"", i + 1))
    ELSE IF IsDigit(s[i]) \/ s[i] = "-"
        THEN JsonNumberAt(SubSeq(s, i, NumberEnd(s, i) - 1), NumberEnd(s, i))
    ELSE IF StartsWithAt(s, i, <<"n", "u", "l", "l">>) THEN JsonOk(JsNull, i + 4)
    ELSE IF StartsWithAt(s, i, <<"t", "r", "u", "e">>) THEN JsonOk(JsBool(TRUE), i + 4)
    ELSE IF StartsWithAt(s, i, <<"f", "a", "l", "s", "e">>)
        THEN JsonOk(JsBool(FALSE), i + 5)
    ELSE JsonFail

\* The elements of a JSON array from s[i] on, after "[" or ",".
RECURSIVE JsonElements(_, _, _)
RECURSIVE JsonAfterElement(_, _, _, _)
JsonElements(s, i, acc) ==
    JsonAfterElement(s, acc, JsonScalarAt(s, SkipSpaces(s, i)),
                     SkipSpaces(s, JsonScalarAt(s, SkipSpaces(s, i)).next))

\* What follows the element el, at s[j]: "," and more elements, or "]".
JsonAfterElement(s, acc, el, j) ==
    IF ~el.ok \/ j > Len(s) THEN JsonFail
    ELSE IF s[j] = "," THEN JsonElements(s, j + 1, Append(acc, el.v))
    ELSE IF s[j] = "]" /\ SkipSpaces(s, j + 1) > Len(s)
        THEN JsonOk(JsArr(Append(acc, el.v)), Len(s) + 1)
    ELSE JsonFail

\* An array whose first character after "[" and spaces is s[i].
JsonArrayAt(raw, i) ==
    IF i <= Len(raw) /\ raw[i] = "]" /\ SkipSpaces(raw, i + 1) > Len(raw)
    THEN JsonOk(JsArr(<<>>), Len(raw) + 1)
    ELSE JsonElements(raw, 2, <<>>)

\* JSON.parse(raw) for a raw value that starts with "[" or "{": an array of
\* scalars, or the empty object. (The inputs of the model hold no nested
\* array and no object with members.)
JsonParse(raw) ==
    IF Head(raw) = "[" THEN JsonArrayAt(raw, SkipSpaces(raw, 2))
    ELSE IF raw = <<"{", "}">> THEN JsonOk(JsObj, 3)
    ELSE JsonFail

IsQuote(c) == c \in {"'", "\""}

StripLeadingQuote(raw) ==
    IF raw # <<>> /\ IsQuote(Head(raw)) THEN Tail(raw) ELSE raw

StripTrailingQuote(raw) ==
    IF raw # <<>> /\ IsQuote(raw[Len(raw)]) THEN SubSeq(raw, 1, Len(raw) - 1) ELSE raw

\* raw.replace(/^['"]|['"]$/g, ""): a quote at the start is removed, and a
\* quote at the end is removed, each on its own.
StripQuotes(raw) == StripTrailingQuote(StripLeadingQuote(raw))

\* try { return JSON.parse(raw) } catch { return raw }
JsonOrRaw(raw, r) == IF r.ok THEN r.v ELSE JsStr(raw)

NumberValue(num) == JsFrac(num.n, num.d)

parseConfigValue(raw) ==
    IF raw # <<>> /\ Head(raw) \in {"[", "{"} THEN JsonOrRaw(raw, JsonParse(raw))
    ELSE IF ToLowerCase(raw) = <<"t", "r", "u", "e">> THEN JsBool(TRUE)
    ELSE IF ToLowerCase(raw) = <<"f", "a", "l", "s", "e">> THEN JsBool(FALSE)
    ELSE IF IsNumberLiteral(raw) THEN NumberValue(NumberOfLiteral(raw))
    ELSE JsStr(StripQuotes(raw))

\* The decorative-title sub-configuration (TocFigletConfig): s is its text
\* and n is 1 when multiCenter is set. The font, colour, size and opacity
\* options are styling handed through to the external service and are left out.
JsFiglet(text, multiCenter) ==
    [t |-> "figlet", n |-> IF multiCenter THEN 1 ELSE 0, d |-> 1, s |-> text, a |-> <<>>]

\* config.figlet?.text
FigletText(v) == IF v.t = "figlet" THEN v.s ELSE <<>>

\* source.split(/\r?\n/)
RECURSIVE SplitLinesFrom(_, _)
SplitLinesFrom(src, cur) ==
    IF src = <<>> THEN <<cur>>
    ELSE IF Head(src) = "\n" THEN
        <<IF cur # <<>> /\ cur[Len(cur)] = "\r" THEN SubSeq(cur, 1, Len(cur) - 1)
          ELSE cur>>
        \o SplitLinesFrom(Tail(src), <<>>)
    ELSE SplitLinesFrom(Tail(src), Append(cur, Head(src)))

SplitLines(src) == SplitLinesFrom(src, <<>>)

\* lines.join("\n")
RECURSIVE JoinLines(_)
JoinLines(lines) ==
    IF lines = <<>> THEN <<>>
    ELSE IF Len(lines) = 1 THEN lines[1]
    ELSE lines[1] \o <<"\n">> \o JoinLines(Tail(lines))

SeparatorText == <<"-", "-", "-">>

\* The 0-based index of the first line from lines[i] on whose trimmed
\* content is "---", -1 when there is none.
RECURSIVE FindSeparatorFrom(_, _)
FindSeparatorFrom(lines, i) ==
    IF i > Len(lines) THEN -1
    ELSE IF Trim(lines[i]) = SeparatorText THEN i - 1
    ELSE FindSeparatorFrom(lines, i + 1)

\* A search that starts after the first line.
FindSeparator_AfterFirst(lines) == FindSeparatorFrom(lines, 2)

\* lines.findIndex((line) => line.trim() === "---")
FindSeparator(lines) == FindSeparatorFrom(lines, 1)

\* The TocConfig key a non-prefixed key names; "" for a key nothing reads.
KeyField(key) ==
    CASE key = <<"t", "i", "t", "l", "e">> -> "title"
      [] key = <<"m", "i", "n", "L", "e", "v", "e", "l">> -> "minLevel"
      [] key = <<"m", "a", "x", "L", "e", "v", "e", "l">> -> "maxLevel"
      [] key = <<"n", "u", "m", "b", "e", "r", "e", "d">> -> "numbered"
      [] key = <<"s", "h", "a", "p", "e", "s">> -> "shapes"
      [] key = <<"r", "e", "m", "o", "v", "e", "_", "c", "h", "a", "r", "s">> -> "remove_chars"
      [] key = <<"f", "i", "g", "l", "e", "t">> -> "figlet"
      [] OTHER -> ""

FigletPrefix == <<"f", "i", "g", "l", "e", "t", "-">>

\* key.slice(7).toLowerCase().replace(/-/g, "")
FigletKey(key) ==
    SelectSeq(ToLowerCase(SubSeq(key, 8, Len(key))), LAMBDA c : c # "-")

\* value === true || String(value).toLowerCase() === "true"
IsTrueOption(value) ==
    \/ (value.t = "bool" /\ value.n = 1)
    \/ ToLowerCase(JsToString(value)) = <<"t", "r", "u", "e">>

\* The assignment a config line makes, its key and parsed value known. st is
\* [config, figletConfig, used]: used collects the lines that set a key.
AssignKey(st, line, key, value) ==
    IF StartsWithAt(key, 1, FigletPrefix) THEN
        IF FigletKey(key) = <<"m", "u", "l", "t", "i", "c", "e", "n", "t", "e", "r">>
        THEN [st EXCEPT !.figletConfig = JsFiglet(st.figletConfig.s, IsTrueOption(value)),
                        !.used = Append(st.used, line)]
        ELSE [st EXCEPT !.used = Append(st.used, line)]
    ELSE IF KeyField(key) = "" THEN [st EXCEPT !.used = Append(st.used, line)]
    ELSE [st EXCEPT !.config = [st.config EXCEPT ![KeyField(key)] = value],
                    !.used = Append(st.used, line)]

\* A line split at its first ":".
ParseKeyValue(st, line, key, rawValue) ==
    IF key = <<>> \/ rawValue = <<>> THEN st
    ELSE AssignKey(st, line, key, parseConfigValue(rawValue))

ParseTrimmed(st, line, trimmed, separatorIndex) ==
    IF trimmed = <<>> \/ Head(trimmed) = "#" THEN st
    ELSE IF separatorIndex = 0 THEN st
    ELSE ParseKeyValue(st, line,
            Trim(SubSeq(trimmed, 1, separatorIndex - 1)),
            Trim(SubSeq(trimmed, separatorIndex + 1, Len(trimmed))))

\* One iteration of the loop over configLines.
ParseLine(st, line) == ParseTrimmed(st, line, Trim(line), IndexOf(Trim(line), ":"))

RECURSIVE ParseLines(_, _)
ParseLines(st, lines) ==
    IF lines = <<>> THEN st ELSE ParseLines(ParseLine(st, Head(lines)), Tail(lines))

ParseStart == [config |-> EmptyConfig, figletConfig |-> JsFiglet(<<>>, FALSE), used |-> <<>>]

\* A slice that also cuts at a separator on the first line.
ConfigLines_CutAtFirstLine(lines, separatorLineIndex) ==
    IF separatorLineIndex >= 0 THEN SubSeq(lines, 1, separatorLineIndex) ELSE lines

\* separatorLineIndex > 0 ? lines.slice(0, separatorLineIndex) : lines
ConfigLines(lines, separatorLineIndex) ==
    IF separatorLineIndex > 0 THEN SubSeq(lines, 1, separatorLineIndex) ELSE lines

\* The text after the separator, "" when there is none to take.
FigletTextOf(lines, separatorLineIndex) ==
    IF separatorLineIndex > 0 /\ separatorLineIndex < Len(lines) - 1
    THEN Trim(JoinLines(SubSeq(lines, separatorLineIndex + 2, Len(lines))))
    ELSE <<>>

\* if (figletConfig.text) config.figlet = figletConfig
WithFiglet(st, figletText) ==
    IF figletText # <<>>
    THEN [st.config EXCEPT !.figlet = JsFiglet(figletText, st.figletConfig.n = 1)]
    ELSE st.config

ParsedWith(lines, separatorLineIndex, st) ==
    [config |-> WithFiglet(st, FigletTextOf(lines, separatorLineIndex)),
     lines |-> lines,
     configLines |-> ConfigLines(lines, separatorLineIndex),
     used |-> st.used,
     separatorLineIndex |-> separatorLineIndex]

ParseSplit(lines, separatorLineIndex) ==
    ParsedWith(lines, separatorLineIndex,
               ParseLines(ParseStart, ConfigLines(lines, separatorLineIndex)))

\* parseTocConfig(source): the TocConfig, with the lines, the lines taken as
\* the config section and the separator index kept for inspection.
parseTocConfig(source) == ParseSplit(SplitLines(source), FindSeparator(SplitLines(source)))

-----------------------------------------------------------------------------
(* stripChars.                                                             *)

\* The characters of the class /[\\^$.*+?()[\]{}|]/ .
RegexSpecials ==
    {"\\", "^", "$", ".", "*", "+", "?", "(", ")", "[", "]", "{", "}", "|"}

\* char.replace(/[\\^$.*+?()[\]{}|]/g, "\\$&")
RECURSIVE EscapeRegex(_)
EscapeRegex(s) ==
    IF s = <<>> THEN <<>>
    ELSE (IF Head(s) \in RegexSpecials THEN <<"\\", Head(s)>> ELSE <<Head(s)>>)
         \o EscapeRegex(Tail(s))

\* chars.filter((char) => char.length > 0).map(escape).join(""): an entry
\* that is no string has no length and is dropped.
RECURSIVE EscapedJoin(_)
EscapedJoin(chars) ==
    IF chars = <<>> THEN <<>>
    ELSE (IF Head(chars).t = "str" /\ Len(Head(chars).s) > 0
          THEN EscapeRegex(Head(chars).s) ELSE <<>>)
         \o EscapedJoin(Tail(chars))

\* The class atoms of a character-class body: a backslash and the character
\* after it are that character (an identity escape), marked esc.
RECURSIVE ClassAtoms(_)
ClassAtoms(body) ==
    IF body = <<>> THEN <<>>
    ELSE IF Head(body) = "\\" /\ Len(body) >= 2
        THEN <<[c |-> body[2], esc |-> TRUE]>> \o ClassAtoms(SubSeq(body, 3, Len(body)))
    ELSE <<[c |-> Head(body), esc |-> FALSE]>> \o ClassAtoms(Tail(body))

\* The ranges of the class: an atom, an unescaped "-" and another atom are
\* the range between them; any other atom stands for itself.
RECURSIVE ClassRanges(_)
ClassRanges(atoms) ==
    IF atoms = <<>> THEN <<>>
    ELSE IF Len(atoms) >= 3 /\ atoms[2].c = "-" /\ ~atoms[2].esc
        THEN <<[lo |-> Code(atoms[1].c), hi |-> Code(atoms[3].c)]>>
             \o ClassRanges(SubSeq(atoms, 4, Len(atoms)))
    ELSE <<[lo |-> Code(atoms[1].c), hi |-> Code(atoms[1].c)]>>
         \o ClassRanges(Tail(atoms))

\* new RegExp("[" + body + "]", "g") throws "Range out of order in character
\* class" for a range whose ends are reversed.
RangesInOrder(ranges) == \A i \in 1..Len(ranges) : ranges[i].lo <= ranges[i].hi

ClassMatches(ranges, c) ==
    \E i \in 1..Len(ranges) : ranges[i].lo <= Code(c) /\ Code(c) <= ranges[i].hi

\* text.replace(pattern, "") for the class with these ranges.
ReplaceClass(text, ranges) ==
    IF ~RangesInOrder(ranges) THEN [ok |-> FALSE, text |-> <<>>]
    ELSE [ok |-> TRUE, text |-> SelectSeq(text, LAMBDA c : ~ClassMatches(ranges, c))]

StripEscaped(text, chars, body) ==
    IF \E i \in 1..Len(chars) : chars[i].t \in {"null", "undef"}
        THEN [ok |-> FALSE, text |-> <<>>]
    ELSE IF body = <<>> THEN [ok |-> TRUE, text |-> text]
    ELSE ReplaceClass(text, ClassRanges(ClassAtoms(body)))

\* stripChars(text, chars): ok is FALSE when the call throws (char.length of
\* a null entry, or the RegExp constructor).
stripChars(text, chars) ==
    IF Len(chars) = 0 THEN [ok |-> TRUE, text |-> text]
    ELSE StripEscaped(text, chars, EscapedJoin(chars))

-----------------------------------------------------------------------------
(* HierarchyRenderer: renderToc.                                           *)
(*                                                                         *)
(* A heading is [level, heading]: level one of 1..6, heading its text.     *)
(* The list structure renderToc builds is kept as two sequences in         *)
(* creation order: lists, each [parent, unmarked] with parent the item the *)
(* list hangs under (0 for the root list), and items, each with the list   *)
(* it is a child of. A list's children are its items in creation order; an *)
(* item's children are its number span, its link, then its nested lists in *)
(* creation order.                                                         *)

\* heading.level >= config.minLevel && heading.level <= config.maxLevel
InRange(heading, config) ==
    /\ JsGreaterEq(JsNum(heading.level), config.minLevel)
    /\ JsGreaterEq(config.maxLevel, JsNum(heading.level))

\* headings.filter(...)
FilterHeadings(headings, config) ==
    SelectSeq(headings, LAMBDA h : InRange(h, config))

\* JSON.stringify of a string's characters: quotes and backslashes escaped.
RECURSIVE JsonEscape(_)
JsonEscape(s) ==
    IF s = <<>> THEN <<>>
    ELSE (IF Head(s) \in {"\"", "\\"} THEN <<"\\", Head(s)>> ELSE <<Head(s)>>)
         \o JsonEscape(Tail(s))

\* JSON.stringify(`${h.level}:${h.heading}`)
SignatureEntry(h) ==
    <<"\"">> \o JsonEscape(Digits(h.level) \o <<":">> \o h.heading) \o <<"\"">>

RECURSIVE SignatureBody(_)
SignatureBody(filtered) ==
    IF filtered = <<>> THEN <<>>
    ELSE IF Len(filtered) = 1 THEN SignatureEntry(filtered[1])
    ELSE SignatureEntry(filtered[1]) \o <<",">> \o SignatureBody(Tail(filtered))

\* JSON.stringify(filtered.map((h) => `${h.level}:${h.heading}`))
Signature(filtered) == <<"[">> \o SignatureBody(filtered) \o <<"]">>

\* createTocList(parent, listTag, hideMarkers)
createTocList(parent, hideMarkers) == [parent |-> parent, unmarked |-> hideMarkers]

\* config.numbered || config.shapes.length > 0
HideMarkers(config) == Truthy(config.numbered) \/ Len(config.shapes.a) > 0

\* The loop's variables after rootList and the stack are set up.
LoopStart(config) ==
    [stack |-> <<[level |-> config.minLevel, list |-> 1]>>,
     currentLevel |-> config.minLevel,
     lastItem |-> 0,
     shapeCounter |-> 0,
     counters |-> <<>>,
     lists |-> <<createTocList(0, HideMarkers(config))>>,
     items |-> <<>>,
     fault |-> FALSE]

\* while (heading.level > currentLevel) { if (!lastItem) break; ... }
PushGuard(st, heading) ==
    JsGreater(JsNum(heading.level), st.currentLevel) /\ st.lastItem # 0

PushOnce(st) ==
    [st EXCEPT
        !.lists = Append(st.lists, createTocList(st.lastItem, st.lists[1].unmarked)),
        !.stack = Append(st.stack, [level |-> JsPlusOne(st.currentLevel),
                                    list |-> Len(st.lists) + 1]),
        !.currentLevel = JsPlusOne(st.currentLevel)]

RECURSIVE PushWhile(_, _)
PushWhile(st, heading) ==
    IF PushGuard(st, heading) THEN PushWhile(PushOnce(st), heading) ELSE st

\* while (heading.level < currentLevel && stack.length > 1) { ... }
PopGuard(st, heading) ==
    JsLess(JsNum(heading.level), st.currentLevel) /\ Len(st.stack) > 1

PopOnce(st) ==
    [st EXCEPT
        !.stack = SubSeq(st.stack, 1, Len(st.stack) - 1),
        !.currentLevel = JsMinusOne(st.currentLevel)]

RECURSIVE PopWhile(_, _)
PopWhile(st, heading) ==
    IF PopGuard(st, heading) THEN PopWhile(PopOnce(st), heading) ELSE st

\* A level of the config as a number, as the arithmetic operators take it
\* (the levels of the configs below are whole numbers, some as strings).
LevelNumber(level) == ToNumber(ToPrimitive(level)).n

\* Math.max(0, heading.level - config.minLevel)
LevelIndex(heading, config) ==
    IF heading.level - LevelNumber(config.minLevel) > 0
    THEN heading.level - LevelNumber(config.minLevel)
    ELSE 0

\* while (counters.length <= levelIndex) counters.push(0)
RECURSIVE PadCounters(_, _)
PadCounters(counters, levelIndex) ==
    IF Len(counters) <= levelIndex THEN PadCounters(Append(counters, 0), levelIndex)
    ELSE counters

\* counters.splice(levelIndex + 1); counters[levelIndex] += 1
CutAndCount(padded, levelIndex) ==
    [i \in 1..(levelIndex + 1) |->
        IF i = levelIndex + 1 THEN padded[i] + 1 ELSE padded[i]]

NextCounters_NoReset(counters, levelIndex) ==
    [i \in 1..Len(PadCounters(counters, levelIndex)) |->
        IF i = levelIndex + 1 THEN PadCounters(counters, levelIndex)[i] + 1
        ELSE PadCounters(counters, levelIndex)[i]]

\* The counters after a heading at levelIndex.
NextCounters(counters, levelIndex) ==
    CutAndCount(PadCounters(counters, levelIndex), levelIndex)

\* counters.join(".")
RECURSIVE JoinCounters(_)
JoinCounters(counters) ==
    IF counters = <<>> THEN <<>>
    ELSE IF Len(counters) = 1 THEN Digits(counters[1])
    ELSE Digits(counters[1]) \o <<".">> \o JoinCounters(Tail(counters))

ShapeIndex_PerLevel(st, heading, config) ==
    (heading.level - LevelNumber(config.minLevel)) % Len(config.shapes.a)

\* shapeCounter % config.shapes.length
ShapeIndex(st, heading, config) == st.shapeCounter % Len(config.shapes.a)

\* href: `#${heading.heading}`
LinkTarget(heading, display) == <<"#">> \o heading.heading

\* if (config.numbered) ... else if (config.shapes.length > 0) ...
IsNumbered(config) == Truthy(config.numbered)
IsShaped(config) == ~Truthy(config.numbered) /\ Len(config.shapes.a) > 0

\* The li: its list, data-level, number span, data-shape and link. counters
\* are the counters after this heading, display what stripChars returned.
TocItem(st, heading, config, counters, display) ==
    [list |-> st.stack[Len(st.stack)].list,
     level |-> heading.level,
     number |-> IF IsNumbered(config) THEN JoinCounters(counters) \o <<" ">> ELSE <<>>,
     hasShape |-> IsShaped(config),
     shape |-> IF IsShaped(config)
               THEN JsToString(config.shapes.a[ShapeIndex(st, heading, config) + 1])
               ELSE <<>>,
     linked |-> display.ok,
     text |-> display.text,
     href |-> IF display.ok THEN LinkTarget(heading, display.text) ELSE <<>>]

PlacedWith(st, heading, config, counters, display) ==
    [st EXCEPT
        !.items = Append(st.items, TocItem(st, heading, config, counters, display)),
        !.counters = counters,
        !.shapeCounter = IF IsShaped(config) THEN st.shapeCounter + 1
                         ELSE st.shapeCounter,
        !.lastItem = IF display.ok THEN Len(st.items) + 1 ELSE st.lastItem,
        !.fault = ~display.ok]

\* The rest of the loop body: the li in the innermost frame's list, its
\* number span or shape, its link. When stripChars throws the item stays
\* without its link and the render ends with that fault.
PlaceItem(st, heading, config) ==
    PlacedWith(st, heading, config,
        IF IsNumbered(config)
        THEN NextCounters(st.counters, LevelIndex(heading, config))
        ELSE st.counters,
        stripChars(heading.heading, config.remove_chars.a))

\* One iteration of for (const heading of filtered).
LoopBody(st, heading, config) ==
    PlaceItem(PopWhile(PushWhile(st, heading), heading), heading, config)

\* The whole loop; it ends at the first iteration that throws.
RECURSIVE RunLoop(_, _, _)
RunLoop(st, filtered, config) ==
    IF filtered = <<>> \/ st.fault THEN st
    ELSE RunLoop(LoopBody(st, Head(filtered), config), Tail(filtered), config)

\* The items of list l from item i on, in displayed order: each item of the
\* list, followed by the items under its nested lists (pre-order, DOM order).
RECURSIVE DisplayFrom(_, _, _)
RECURSIVE NestedFrom(_, _, _)
DisplayFrom(tree, l, i) ==
    IF i > Len(tree.items) THEN <<>>
    ELSE IF tree.items[i].list # l THEN DisplayFrom(tree, l, i + 1)
    ELSE <<i>> \o NestedFrom(tree, i, 1) \o DisplayFrom(tree, l, i + 1)

\* The items under the nested lists of item i, from list k on.
NestedFrom(tree, i, k) ==
    IF k > Len(tree.lists) THEN <<>>
    ELSE IF tree.lists[k].parent # i THEN NestedFrom(tree, i, k + 1)
    ELSE DisplayFrom(tree, k, 1) \o NestedFrom(tree, i, k + 1)

DisplayOrder(tree) == DisplayFrom(tree, 1, 1)

-----------------------------------------------------------------------------
(* Bounds and the inputs drawn from them.                                  *)

MaxHeadings == 5        \* headings of a document given to the renderer
MaxHeadingLevel == 3    \* heading levels the documents use (of 1..6)

\* A variable of a part of the program that a specification does not run.
Off == [pc |-> "off"]

\* The text of the heading at position i of a document.
HeadingTexts ==
    << <<"I", "n", "t", "r", "o", " ", "#", "1">>, <<"a", "-", "b">>, <<"A">> >>

HeadingText(i) == HeadingTexts[((i - 1) % Len(HeadingTexts)) + 1]

\* Sequences of exactly n heading levels, and of at most n.
RECURSIVE LevelSeqsOfLen(_)
LevelSeqsOfLen(n) ==
    IF n = 0 THEN {<<>>}
    ELSE {Append(q, l) : q \in LevelSeqsOfLen(n - 1), l \in 1..MaxHeadingLevel}

LevelSeqs(n) == UNION {LevelSeqsOfLen(k) : k \in 0..n}

\* getHeadings(plugin, sourcePath) for a document with these heading levels.
HeadingsOf(levels) ==
    [i \in 1..Len(levels) |-> [level |-> levels[i], heading |-> HeadingText(i)]]

ShapesValue == JsArr(<<JsStr(<<">">>), JsStr(<<"-">>)>>)
RemoveHash  == JsArr(<<JsStr(<<"#">>)>>)

\* The raw configs given to the renderer: the level range, numbering and
\* shapes in every combination with remove_chars set, and numbering and
\* shapes in every combination without it; and the config of a numbered
\* block that gives its minimum level in quotes (minLevel: "2"), which
\* parseConfigValue returns as a string and clampLevel leaves as it is.
ConfigOf(lo, hi, nu, sh, rc) ==
    [EmptyConfig EXCEPT !.minLevel = lo, !.maxLevel = hi, !.numbered = nu,
                        !.shapes = sh, !.remove_chars = rc]

RenderConfigs ==
    {ConfigOf(lv[1], lv[2], nu, sh, lv[3]) :
        lv \in {<<JsUndef, JsUndef, RemoveHash>>, <<JsNum(2), JsUndef, RemoveHash>>,
                <<JsUndef, JsNum(2), RemoveHash>>, <<JsUndef, JsUndef, JsUndef>>},
        nu \in {JsUndef, JsBool(TRUE)},
        sh \in {JsUndef, ShapesValue}}
    \cup {ConfigOf(JsStr(<<"2">>), JsUndef, JsBool(TRUE), JsUndef, RemoveHash)}

-----------------------------------------------------------------------------
(* renderToc's loop, one step at a time.                                   *)

\* renderToc before the loop, its config and filtered headings known: the
\* signature, then the empty placeholder or the root list.
RtStarted(raw, headings, config, filtered) ==
    [pc |-> IF filtered = <<>> THEN "done" ELSE "loop",
     raw |-> raw,
     headings |-> headings,
     config |-> config,
     filtered |-> filtered,
     signature |-> Signature(filtered),
     empty |-> filtered = <<>>,
     i |-> 1,
     phase |-> "push",
     st |-> LoopStart(config)]

\* renderToc up to the loop: normalizeConfig, getHeadings and the filter.
RtStart ==
    /\ rt.pc = "start"
    /\ rt' = RtStarted(rt.raw, rt.headings,
                normalizeConfig(rt.raw, DEFAULT_SETTINGS),
                FilterHeadings(rt.headings, normalizeConfig(rt.raw, DEFAULT_SETTINGS)))
    /\ UNCHANGED <<docs, blocks, renders, figletAPI, log, norm, strip, parse>>

\* One iteration of the first while loop.
RtPush ==
    /\ rt.pc = "loop" /\ rt.phase = "push"
    /\ PushGuard(rt.st, rt.filtered[rt.i])
    /\ rt' = [rt EXCEPT !.st = PushOnce(rt.st)]
    /\ UNCHANGED <<docs, blocks, renders, figletAPI, log, norm, strip, parse>>

\* One iteration of the second while loop, once the first has ended.
RtPop ==
    /\ rt.pc = "loop"
    /\ rt.phase = "push" => ~PushGuard(rt.st, rt.filtered[rt.i])
    /\ PopGuard(rt.st, rt.filtered[rt.i])
    /\ rt' = [rt EXCEPT !.st = PopOnce(rt.st), !.phase = "pop"]
    /\ UNCHANGED <<docs, blocks, renders, figletAPI, log, norm, strip, parse>>

\* The loop's state after the item is placed; after the last heading
\* renderToc returns.
RtPlaced(r, st) ==
    [r EXCEPT !.st = st,
              !.i = r.i + 1,
              !.phase = "push",
              !.pc = IF st.fault THEN "fault"
                     ELSE IF r.i = Len(r.filtered) THEN "done"
                     ELSE "loop"]

\* The rest of the loop body, once both while loops have ended.
RtPlace ==
    /\ rt.pc = "loop"
    /\ rt.phase = "push" => ~PushGuard(rt.st, rt.filtered[rt.i])
    /\ ~PopGuard(rt.st, rt.filtered[rt.i])
    /\ rt' = RtPlaced(rt, PlaceItem(rt.st, rt.filtered[rt.i], rt.config))
    /\ UNCHANGED <<docs, blocks, renders, figletAPI, log, norm, strip, parse>>

InitRender ==
    /\ rt \in {[pc |-> "start", raw |-> c, headings |-> HeadingsOf(q)] :
                c \in RenderConfigs, q \in LevelSeqs(MaxHeadings)}
    /\ docs = Off /\ blocks = Off /\ renders = Off /\ figletAPI = Off /\ log = Off
    /\ norm = Off /\ strip = Off /\ parse = Off

NextRender == RtStart \/ RtPush \/ RtPop \/ RtPlace

SpecRender == InitRender /\ [][NextRender]_vars

-----------------------------------------------------------------------------
(* The plugin at work (Spec): documents whose headings change, the code    *)
(* block processor, the two notifications, the timers of refreshTocForPath *)
(* and the renders suspended at the decorative service.                    *)

MaxBlocks == 1      \* TOC code blocks the processor is given
MaxPending == 2     \* deferred re-renders of one instance not yet completed

Paths == {"a.md", "b.md"}

\* The heading levels a document goes through.
DocVersions == {<<>>, <<1>>, <<1, 2>>}

\* The sources of the code blocks: a level range, a remove_chars list with
\* an entry that is no string, and a title with decorative text.
BlockSources ==
    { <<"m", "a", "x", "L", "e", "v", "e", "l", ":", " ", "1">>,
      <<"r", "e", "m", "o", "v", "e", "_", "c", "h", "a", "r", "s", ":", " ",
        "[", "n", "u", "l", "l", "]">>,
      <<"t", "i", "t", "l", "e", ":", " ", "T", "\n", "-", "-", "-", "\n", "H", "i">> }

\* JSON.stringify of a scalar; an undefined array element is written null.
JsonScalarText(v) ==
    CASE v.t = "str" -> <<"\"">> \o JsonEscape(v.s) \o <<"\"">>
      [] v.t = "num" -> NumToString(v.n, v.d)
      [] v.t = "bool" -> IF v.n = 1 THEN <<"t", "r", "u", "e">>
                         ELSE <<"f", "a", "l", "s", "e">>
      [] OTHER -> <<"n", "u", "l", "l">>

RECURSIVE JsonArrayBody(_)
JsonArrayBody(a) ==
    IF a = <<>> THEN <<>>
    ELSE IF Len(a) = 1 THEN JsonScalarText(a[1])
    ELSE JsonScalarText(a[1]) \o <<",">> \o JsonArrayBody(Tail(a))

\* JSON.stringify of the value of a key; the empty text for a key that is
\* undefined, which JSON.stringify leaves out of the object.
JsonStringify(v) ==
    IF v.t = "undef" THEN <<>>
    ELSE IF v.t = "arr" THEN <<"[">> \o JsonArrayBody(v.a) \o <<"]">>
    ELSE JsonScalarText(v)

\* The figlet member of the stringified config: its text stringified.
JsonFiglet(v) ==
    IF v.t = "figlet"
    THEN [present |-> TRUE, text |-> JsonStringify(JsStr(v.s)), multiCenter |-> v.n = 1]
    ELSE [present |-> FALSE, text |-> <<>>, multiCenter |-> FALSE]

\* wrapper.dataset.sfTocConfig = JSON.stringify(config): the JSON text of
\* each key of the object.
StringifyConfig(config) ==
    [title |-> JsonStringify(config.title),
     minLevel |-> JsonStringify(config.minLevel),
     maxLevel |-> JsonStringify(config.maxLevel),
     numbered |-> JsonStringify(config.numbered),
     shapes |-> JsonStringify(config.shapes),
     remove_chars |-> JsonStringify(config.remove_chars),
     figlet |-> JsonFiglet(config.figlet)]

\* JSON.parse of the text of one key, undefined for a key left out.
JsonValue(text) ==
    IF text = <<>> THEN JsUndef
    ELSE IF Head(text) \in {"[", "{"} THEN JsonParse(text).v
    ELSE JsonScalarAt(text, 1).v

FigletValue(f) ==
    IF f.present THEN JsFiglet(JsonValue(f.text).s, f.multiCenter) ELSE JsUndef

\* JSON.parse of a persisted config.
ParsePersisted(persisted) ==
    [title |-> JsonValue(persisted.title),
     minLevel |-> JsonValue(persisted.minLevel),
     maxLevel |-> JsonValue(persisted.maxLevel),
     numbered |-> JsonValue(persisted.numbered),
     shapes |-> JsonValue(persisted.shapes),
     remove_chars |-> JsonValue(persisted.remove_chars),
     figlet |-> FigletValue(persisted.figlet)]

\* The configs the processor parses from the block sources, and what
\* JSON.parse returns for each config it persists (computed once).
ParsedConfigs == {parseTocConfig(source).config : source \in BlockSources}

PersistedConfigs ==
    {[persisted |-> StringifyConfig(config), config |-> ParsePersisted(StringifyConfig(config))] :
        config \in ParsedConfigs}

\* parseConfigFromEl(el): JSON.parse(el.dataset.sfTocConfig)
parseConfigFromEl(block) ==
    (CHOOSE e \in PersistedConfigs : e.persisted = block.persisted).config

\* getHeadings(plugin, path): the headings the metadata cache holds.
getHeadings(d, path) == HeadingsOf(d[path].levels)

\* The children of the wrapper: the figlet container (ok: filled by the
\* service), the title, the "No headings found." placeholder and the root
\* list (shown: its items in displayed order; ok: the loop ran to its end).
FigletChild == [kind |-> "figlet", text |-> <<>>, shown |-> <<>>, ok |-> FALSE]
TitleChild(text) == [kind |-> "title", text |-> text, shown |-> <<>>, ok |-> TRUE]
EmptyChild == [kind |-> "empty", text |-> <<>>, shown |-> <<>>, ok |-> TRUE]

\* An item as shown: its level, the text of its link and the heading the
\* link targets; an item left without a link shows neither.
ShownItem(item) ==
    [level |-> item.level, text |-> item.text, linked |-> item.linked,
     heading |-> IF item.linked THEN Tail(item.href) ELSE <<>>]
ShownItems(tree, order) == [k \in 1..Len(order) |-> ShownItem(tree.items[order[k]])]

ListChild(tree) ==
    [kind |-> "list", text |-> <<>>, shown |-> ShownItems(tree, DisplayOrder(tree)),
     ok |-> ~tree.fault]

\* if (config.title) container.createDiv({cls: "sf-toc-title", ...})
TitleOf(config) ==
    IF Truthy(config.title) THEN <<TitleChild(JsToString(config.title))>> ELSE <<>>

\* renderToc from the signature on, the list built.
RestWithTree(config, filtered, tree) ==
    [children |-> TitleOf(config) \o <<ListChild(tree)>>,
     signature |-> Signature(filtered),
     fault |-> tree.fault]

\* renderToc from the title on, the filtered headings known: what it appends
\* to the container, the signature it stores and whether it throws.
RenderRest(config, filtered) ==
    IF filtered = <<>>
    THEN [children |-> TitleOf(config) \o <<EmptyChild>>,
          signature |-> Signature(filtered),
          fault |-> FALSE]
    ELSE RestWithTree(config, filtered, RunLoop(LoopStart(config), filtered, config))

\* renderToc after the figlet step.
RenderTail(config, headings) == RenderRest(config, FilterHeadings(headings, config))

\* The raw configs renderToc is given, by the processor and by a timer.
RawConfigs == ParsedConfigs \cup {e.config : e \in PersistedConfigs}

\* renderToc after the figlet step for each raw config and each version of
\* a document (computed once), and the entry of a render.
RenderTails ==
    {[raw |-> raw, levels |-> levels,
      out |-> RenderTail(normalizeConfig(raw, DEFAULT_SETTINGS), HeadingsOf(levels))] :
        raw \in RawConfigs, levels \in DocVersions}

RenderTailOf(raw, d, path) ==
    (CHOOSE e \in RenderTails : e.raw = raw /\ e.levels = d[path].levels).out

\* config.figlet?.text
HasFiglet(raw) == FigletText(raw.figlet) # <<>>

\* renderToc suspends at a call of the service: there is text to render and
\* window.figletAPI is there.
Suspends(raw, api) == HasFiglet(raw) /\ api = "present"

\* renderToc up to the figlet step: container.empty(), the figlet container.
Started(b, raw) ==
    [b EXCEPT !.children = IF HasFiglet(raw) THEN <<FigletChild>> ELSE <<>>]

\* A render of kind "initial" (the code block processor's) or "refresh" (a
\* timer's) has run its last part with outcome out: the children and the
\* signature are on the wrapper; on a fault the processor's catch replaces
\* the wrapper by the error block and a timer's render is left rejected; on
\* success a timer's render removes the sf-toc-updating class. faulted and
\* rendered record that a render of the instance threw and the signature of
\* the render that last completed without fault.
Finished(b, kind, out) ==
    [b EXCEPT !.children = @ \o out.children,
              !.signature = JsStr(out.signature),
              !.updating = IF kind = "refresh" /\ ~out.fault THEN FALSE ELSE @,
              !.error = @ \/ (out.fault /\ kind = "initial"),
              !.attached = @ /\ ~(out.fault /\ kind = "initial"),
              !.faulted = @ \/ out.fault,
              !.rendered = IF out.fault THEN @ ELSE JsStr(out.signature)]

\* What console.error and the host record of a render that threw.
Logged(l, i, kind, out) ==
    IF ~out.fault THEN l
    ELSE IF kind = "initial" THEN l \cup {[what |-> "TOC render error", block |-> i]}
    ELSE l \cup {[what |-> "unhandled rejection", block |-> i]}

\* The block the processor creates, before renderToc.
NewBlock(path, config) ==
    [path |-> path,
     persisted |-> StringifyConfig(config),
     signature |-> JsUndef,
     updating |-> FALSE,
     children |-> <<>>,
     error |-> FALSE,
     attached |-> TRUE,
     timers |-> 0,
     faulted |-> FALSE,
     rendered |-> JsUndef]

\* The figlet containers of the renders of block i still suspended are out
\* of the wrapper once a later render has emptied it.
Detached(rs, i) ==
    [k \in 1..Len(rs) |-> IF rs[k].block = i THEN [rs[k] EXCEPT !.live = FALSE] ELSE rs[k]]

Suspended(i, kind, raw) == [block |-> i, kind |-> kind, raw |-> raw, live |-> TRUE]

RemoveAt(q, r) == SubSeq(q, 1, r - 1) \o SubSeq(q, r + 1, Len(q))

\* A render of block i starts on the wrapper b and runs until it suspends
\* or returns.
RenderStarts(i, b, kind, raw, bs) ==
    IF Suspends(raw, figletAPI)
    THEN /\ blocks' = [bs EXCEPT ![i] = Started(b, raw)]
         /\ renders' = Append(Detached(renders, i), Suspended(i, kind, raw))
         /\ log' = log
    ELSE /\ blocks' = [bs EXCEPT ![i] =
                Finished(Started(b, raw), kind,
                    RenderTailOf(raw, docs, b.path))]
         /\ renders' = Detached(renders, i)
         /\ log' = Logged(log, i, kind,
                    RenderTailOf(raw, docs, b.path))

\* The code block processor is given a block of document path, the blocks
\* of a run being at most limit.
ProcessBlockUpTo(limit, path, source) ==
    /\ Len(blocks) < limit
    /\ RenderStarts(Len(blocks) + 1,
                    NewBlock(path, parseTocConfig(source).config),
                    "initial",
                    parseTocConfig(source).config,
                    Append(blocks, NewBlock(path, parseTocConfig(source).config)))
    /\ UNCHANGED <<docs, figletAPI, norm, strip, parse, rt>>

ProcessBlock(path, source) == ProcessBlockUpTo(MaxBlocks, path, source)

\* The signature refreshTocForPath computes for a block.
HeadingsSignature(raw, headings) ==
    JsStr(Signature(FilterHeadings(headings, normalizeConfig(raw, DEFAULT_SETTINGS))))

\* The same for each persisted config and each version of a document
\* (computed once).
HeadingsSignatures ==
    {[persisted |-> e.persisted, levels |-> levels,
      signature |-> HeadingsSignature(e.config, HeadingsOf(levels))] :
        e \in PersistedConfigs, levels \in DocVersions}

CurrentSignature(b, d) ==
    (CHOOSE e \in HeadingsSignatures :
        e.persisted = b.persisted /\ e.levels = d[b.path].levels).signature

\* A re-render is needed everywhere, whatever the signatures.
RefreshNeeded_Always(stored, current) == TRUE

\* storedSignature === headingsSignature: return
RefreshNeeded(stored, current) == stored # current

\* The body of tocBlocks.forEach for one block.
RefreshBlock(b, d) ==
    IF RefreshNeeded(b.signature, CurrentSignature(b, d))
    THEN [b EXCEPT !.signature = CurrentSignature(b, d),
                   !.updating = TRUE,
                   !.timers = @ + 1]
    ELSE b

\* A selection of every wrapper in the document, whatever its path.
Selected_AnyPath(b, path) == b.attached

\* document.querySelectorAll(`.sf-toc[data-sf-toc-path=...]`)
Selected(b, path) == b.attached /\ b.path = path

\* The deferred re-renders of block i that have not completed.
PendingOf(i) ==
    blocks[i].timers
    + Cardinality({k \in 1..Len(renders) : renders[k].block = i /\ renders[k].kind = "refresh"})

\* refreshTocForPath(plugin, path)
refreshTocForPath(path, d) ==
    /\ \A i \in 1..Len(blocks) : Selected(blocks[i], path) => PendingOf(i) < MaxPending
    /\ blocks' = [i \in 1..Len(blocks) |->
                    IF Selected(blocks[i], path) THEN RefreshBlock(blocks[i], d)
                    ELSE blocks[i]]

\* The headings of a document change; the metadata cache owes a "changed".
EditDoc(path, levels) ==
    /\ levels # docs[path].levels
    /\ docs' = [docs EXCEPT ![path] = [levels |-> levels, changed |-> TRUE]]
    /\ UNCHANGED <<blocks, renders, figletAPI, log, norm, strip, parse, rt>>

\* metadataCache.on("changed", ...)
Changed(path) ==
    /\ docs[path].changed
    /\ refreshTocForPath(path, docs)
    /\ docs' = [docs EXCEPT ![path].changed = FALSE]
    /\ UNCHANGED <<renders, figletAPI, log, norm, strip, parse, rt>>

\* workspace.on("file-open", ...)
FileOpen(path) ==
    /\ refreshTocForPath(path, docs)
    /\ UNCHANGED <<docs, renders, figletAPI, log, norm, strip, parse, rt>>

\* A timer of refreshTocForPath fires: renderToc(block, plugin, config, path)
\* with the config parsed from the block, then the class removed.
TimerFires(i) ==
    /\ i \in 1..Len(blocks)
    /\ blocks[i].timers > 0
    /\ RenderStarts(i, [blocks[i] EXCEPT !.timers = @ - 1], "refresh",
                    parseConfigFromEl(blocks[i]), blocks)
    /\ UNCHANGED <<docs, figletAPI, norm, strip, parse, rt>>

\* The figlet container of a render whose call resolved, if still there.
Filled(b, r, outcome) ==
    IF outcome = "resolved" /\ r.live
    THEN [b EXCEPT !.children[1] = [@ EXCEPT !.ok = TRUE]]
    ELSE b

\* generateText settles for the suspended render r: resolved, or rejected
\* and logged by renderFigletForToc's catch; renderToc runs to its end.
FigletSettles(r, outcome) ==
    /\ r \in 1..Len(renders)
    /\ blocks' = [blocks EXCEPT ![renders[r].block] =
            Finished(Filled(@, renders[r], outcome), renders[r].kind,
                RenderTailOf(renders[r].raw, docs, @.path))]
    /\ renders' = RemoveAt(renders, r)
    /\ log' = Logged(IF outcome = "rejected"
                     THEN log \cup {[what |-> "figlet error", block |-> renders[r].block]}
                     ELSE log,
                     renders[r].block, renders[r].kind,
                     RenderTailOf(renders[r].raw, docs, blocks[renders[r].block].path))
    /\ UNCHANGED <<docs, figletAPI, norm, strip, parse, rt>>

Init ==
    /\ docs \in [Paths -> {[levels |-> v, changed |-> FALSE] : v \in DocVersions}]
    /\ blocks = <<>>
    /\ renders = <<>>
    /\ figletAPI \in {"absent", "present"}
    /\ log = {}
    /\ norm = Off /\ strip = Off /\ parse = Off /\ rt = Off

Next ==
    \/ \E path \in Paths, source \in BlockSources : ProcessBlock(path, source)
    \/ \E path \in Paths, levels \in DocVersions : EditDoc(path, levels)
    \/ \E path \in Paths : Changed(path)
    \/ \E path \in Paths : FileOpen(path)
    \/ \E i \in 1..MaxBlocks : TimerFires(i)
    \/ \E r \in 1..(MaxBlocks * (MaxPending + 1)), outcome \in {"resolved", "rejected"} :
          FigletSettles(r, outcome)

Spec == Init /\ [][Next]_vars

\* The host runs what is due: a timer that is set fires and a "changed" that
\* is owed is delivered. Nothing makes the decorative service answer.
SpecFair ==
    /\ Spec
    /\ WF_vars(\E i \in 1..MaxBlocks : TimerFires(i))
    /\ WF_vars(\E path \in Paths : Changed(path))

\* The host runs what is due and the decorative service answers every call:
\* the oldest suspended render is resumed, its call resolved or rejected.
SpecLive ==
    /\ SpecFair
    /\ WF_vars(\E outcome \in {"resolved", "rejected"} : FigletSettles(1, outcome))

\* Two blocks, in one document or in two, where the decorative service is
\* not installed; the blocks have no decorative title.
MaxPairBlocks == 2

PairSources == {source \in BlockSources : ~HasFiglet(parseTocConfig(source).config)}

InitPair == Init /\ figletAPI = "absent"

NextPair ==
    \/ \E path \in Paths, source \in PairSources :
          ProcessBlockUpTo(MaxPairBlocks, path, source)
    \/ \E path \in Paths, levels \in DocVersions : EditDoc(path, levels)
    \/ \E path \in Paths : Changed(path)
    \/ \E path \in Paths : FileOpen(path)
    \/ \E i \in 1..MaxPairBlocks : TimerFires(i)

SpecPair == InitPair /\ [][NextPair]_vars

-----------------------------------------------------------------------------
(* Properties of the plugin (Spec, SpecFair).                              *)

\* C1: in every reachable state the stored signature of every instance is
\* the signature of the filtered headings of its last render that completed
\* without fault; the refresh handler writes no signature before the
\* re-render it schedules has completed.
C1_SignatureOfLastRender ==
    \A i \in 1..Len(blocks) :
        blocks[i].attached => blocks[i].signature = blocks[i].rendered

\* A step that delivers a notification for the document path.
Notified(path) == Changed(path) \/ FileOpen(path)

\* What a notification does to the instance i bound to its document: a timer
\* more and the fade-out cue exactly when the recomputed signature differs
\* from the stored one, and nothing at all when they are equal.
NotifiedBlock(i) ==
    /\ (blocks'[i].timers = blocks[i].timers + 1)
         <=> (CurrentSignature(blocks[i], docs) # blocks[i].signature)
    /\ blocks'[i].timers # blocks[i].timers + 1 => blocks'[i].timers = blocks[i].timers
    /\ blocks'[i].timers = blocks[i].timers + 1 => blocks'[i].updating
    /\ CurrentSignature(blocks[i], docs) = blocks[i].signature => blocks'[i] = blocks[i]

\* C2: on a notification for an instance's document a re-render is scheduled
\* if and only if the signature recomputed from the document's current
\* filtered headings, with the persisted config, differs from the stored
\* one; when they are equal there is no cue, no timer and no render, and the
\* stored signature and the displayed structure stay as they are.
C2_RefreshIffSignatureDiffers ==
    [][\A path \in Paths :
          Notified(path) =>
              /\ renders' = renders
              /\ Len(blocks') = Len(blocks)
              /\ \A i \in 1..Len(blocks) :
                    Selected(blocks[i], path) => NotifiedBlock(i)]_vars

\* C2's case: a notification has found a different signature and scheduled
\* the re-render of an instance that had rendered before.
C2_Witness ==
    \E i \in 1..Len(blocks) :
        /\ blocks[i].updating /\ blocks[i].timers > 0
        /\ blocks[i].rendered.t = "str"
        /\ blocks[i].signature # blocks[i].rendered

\* C6: a fault raised while rendering an instance, in the initial processing
\* of the block or in a re-render a refresh scheduled, is caught and the
\* instance ends up showing the inline error block.
C6_FaultsShown ==
    \A i \in 1..Len(blocks) : blocks[i].faulted => blocks[i].error

\* A render of instance i is suspended at the decorative service.
AwaitingService(i) == \E r \in 1..Len(renders) : renders[r].block = i

\* The wrapper of instance i holds the hierarchy: the list or the placeholder.
HierarchyShown(i) ==
    /\ i <= Len(blocks)
    /\ \E k \in 1..Len(blocks[i].children) : blocks[i].children[k].kind \in {"list", "empty"}

\* C7: with a decorative title configured, the hierarchy is rendered whether
\* the call of the decorative service fails, is slow or never returns: a
\* render waiting for the service leads to the hierarchy being shown.
C7_HierarchyIndependent ==
    \A i \in 1..MaxBlocks : AwaitingService(i) ~> HierarchyShown(i)

\* The step leaves what instance i stores and shows as it is.
Untouched(i) ==
    /\ blocks'[i].signature = blocks[i].signature
    /\ blocks'[i].children = blocks[i].children
    /\ blocks'[i].updating = blocks[i].updating
    /\ blocks'[i].timers = blocks[i].timers

\* The step keeps the path and the persisted config of every instance.
BindingKept ==
    /\ Len(blocks') >= Len(blocks)
    /\ \A i \in 1..Len(blocks) :
          /\ blocks'[i].path = blocks[i].path
          /\ blocks'[i].persisted = blocks[i].persisted

\* C16: a notification for a document changes nothing of the instances
\* bound to another document (stored signature, displayed structure,
\* transition state, timers), and no step at all, notification or
\* re-render, changes the path or the persisted config of an instance.
C16_OtherDocumentsUntouched ==
    [][/\ BindingKept
       /\ \A path \in Paths :
             Notified(path) =>
                 \A i \in 1..Len(blocks) : blocks[i].path # path => Untouched(i)]_vars

\* C16's case: two instances bound to different documents, one just marked
\* for a re-render by a notification for its document, the other idle with
\* the structure of its last render.
C16_Witness ==
    \E i, j \in 1..Len(blocks) :
        /\ blocks[i].path # blocks[j].path
        /\ blocks[i].attached /\ blocks[j].attached
        /\ blocks[i].updating /\ blocks[i].timers > 0
        /\ blocks[i].signature # blocks[i].rendered
        /\ ~blocks[j].updating /\ blocks[j].timers = 0
        /\ blocks[j].signature = blocks[j].rendered
        /\ blocks[j].children # <<>>

\* The children of a wrapper that are of one of these kinds.
ChildrenOfKind(children, kinds) == {k \in 1..Len(children) : children[k].kind \in kinds}

\* No render of instance i is scheduled or suspended.
NoRenderInProgress(i) == blocks[i].timers = 0 /\ ~AwaitingService(i)

\* C14: once the renders of an instance have all completed, overlapping
\* ones included, the wrapper holds what the render that completed last
\* produced and nothing else: one list (or the placeholder), at most one
\* title, and that render's signature.
C14_LastRenderWins ==
    \A i \in 1..Len(blocks) :
        blocks[i].attached /\ ~blocks[i].faulted /\ NoRenderInProgress(i) =>
            /\ Cardinality(ChildrenOfKind(blocks[i].children, {"list", "empty"})) = 1
            /\ Cardinality(ChildrenOfKind(blocks[i].children, {"title"})) <= 1
            /\ blocks[i].signature = blocks[i].rendered

\* C15: every notification for the document of an instance that is
\* Updating (the cue applied, its deferred re-render not yet completed)
\* sets a timer of its own for a re-render of its own; none is dropped or
\* merged with the one pending.
C15_EveryNotificationRenders ==
    [][\A path \in Paths :
          Notified(path) =>
              \A i \in 1..Len(blocks) :
                  Selected(blocks[i], path) /\ blocks[i].updating =>
                      blocks'[i].timers = blocks[i].timers + 1]_vars

\* The filtered headings of the document of block b, as they are now.
FilteredNow(b) ==
    FilterHeadings(getHeadings(docs, b.path),
                   normalizeConfig(parseConfigFromEl(b), DEFAULT_SETTINGS))

\* The child c shows the headings filtered, each once and in order: the
\* placeholder for none, else a list of one linked item per heading.
ShowsHeadings(c, filtered) ==
    IF filtered = <<>> THEN c.kind = "empty"
    ELSE /\ c.kind = "list"
         /\ Len(c.shown) = Len(filtered)
         /\ \A k \in 1..Len(filtered) :
               /\ c.shown[k].linked
               /\ c.shown[k].level = filtered[k].level
               /\ c.shown[k].heading = filtered[k].heading

\* Instance i is synchronized with its document: its wrapper holds one
\* hierarchy, that of the current filtered headings, and the signature
\* stored is theirs.
Synced(i) ==
    /\ Cardinality(ChildrenOfKind(blocks[i].children, {"list", "empty"})) = 1
    /\ \A k \in ChildrenOfKind(blocks[i].children, {"list", "empty"}) :
          ShowsHeadings(blocks[i].children[k], FilteredNow(blocks[i]))
    /\ blocks[i].signature = CurrentSignature(blocks[i], docs)

\* Instance i is live: created and still in the document.
Live(i) == i <= Len(blocks) /\ blocks[i].attached

\* C12: when every heading change is notified, timers fire and the calls of
\* the service complete, then once the headings of a document stay at some
\* version, every live instance bound to it eventually shows exactly the
\* current filtered headings with their signature stored, and stays so.
C12_LiveSynchronization ==
    \A i \in 1..MaxBlocks, path \in Paths, levels \in DocVersions :
        <>[](docs[path].levels = levels)
            => <>[](Live(i) /\ blocks[i].path = path => Synced(i))

\* C13: an instance that is Updating (the cue applied) returns to Idle with
\* the cue removed, whatever the outcome of the deferred re-render, and the
\* cue is removed only by a step that has applied a rendered structure and
\* stored its signature.
C13_UpdatingEnds ==
    /\ \A i \in 1..MaxBlocks :
          (Live(i) /\ blocks[i].updating) ~> (Live(i) => ~blocks[i].updating)
    /\ [][\A i \in 1..Len(blocks) :
              blocks[i].updating /\ ~blocks'[i].updating =>
                  /\ blocks'[i].signature = blocks'[i].rendered
                  /\ ChildrenOfKind(blocks'[i].children, {"list", "empty"}) # {}]_vars

-----------------------------------------------------------------------------
(* normalizeConfig on the configs the parser produces (SpecNorm).          *)

\* The values written after "minLevel:" and "maxLevel:" in a block; the
\* empty text stands for a block without the key.
LevelTexts ==
    { <<>>, <<"2">>, <<"4">>, <<"0">>, <<"9">>, <<"-", "1">>, <<"2", ".", "5">>,
      <<"a", "b", "c">>, <<"t", "r", "u", "e">>, <<"\"", "5", "\"">>, <<"[", "3", "]">> }

MinLevelKey == <<"m", "i", "n", "L", "e", "v", "e", "l", ":", " ">>
MaxLevelKey == <<"m", "a", "x", "L", "e", "v", "e", "l", ":", " ">>

KeyLine(key, text) == IF text = <<>> THEN <<>> ELSE <<key \o text>>

\* The source of a block that sets the two levels to these texts.
LevelSource(minText, maxText) ==
    JoinLines(KeyLine(MinLevelKey, minText) \o KeyLine(MaxLevelKey, maxText))

\* The defaults the settings tab can store: its dropdowns offer 1..6 for each
\* of the two levels, independently.
SettingsOf(lo, hi) ==
    [DEFAULT_SETTINGS EXCEPT !.defaultMinLevel = JsNum(lo), !.defaultMaxLevel = JsNum(hi)]

SettingsSources == {DEFAULT_SETTINGS, SettingsOf(5, 2), SettingsOf(3, 3)}

\* parseTocConfig(source, plugin)
NormParse ==
    /\ norm.pc = "source"
    /\ norm' = [pc |-> "parsed", source |-> norm.source, settings |-> norm.settings,
                config |-> parseTocConfig(norm.source).config]
    /\ UNCHANGED <<docs, blocks, renders, figletAPI, log, strip, parse, rt>>

\* normalizeConfig(config, plugin)
NormNormalize ==
    /\ norm.pc = "parsed"
    /\ norm' = [pc |-> "done", source |-> norm.source, settings |-> norm.settings,
                config |-> norm.config,
                normalized |-> normalizeConfig(norm.config, norm.settings)]
    /\ UNCHANGED <<docs, blocks, renders, figletAPI, log, strip, parse, rt>>

InitNorm ==
    /\ norm \in {[pc |-> "source", source |-> LevelSource(lo, hi), settings |-> st] :
                    lo \in LevelTexts, hi \in LevelTexts, st \in SettingsSources}
    /\ docs = Off /\ blocks = Off /\ renders = Off /\ figletAPI = Off /\ log = Off
    /\ strip = Off /\ parse = Off /\ rt = Off

NextNorm == NormParse \/ NormNormalize

SpecNorm == InitNorm /\ [][NextNorm]_vars

\* A value that is a number of the closed range [1, 6].
InLevelRange(v) == v.t = "num" /\ v.n >= v.d /\ v.n <= 6 * v.d

\* a <= b for two numbers.
NumberLeq(a, b) == a.t = "num" /\ b.t = "num" /\ a.n * b.d <= b.n * a.d

\* C5: for every raw config the parser produces and every defaults source,
\* normalizeConfig returns a minLevel and a maxLevel that both lie in [1,6]
\* with minLevel <= maxLevel.
C5_LevelsClamped ==
    norm.pc = "done" =>
        /\ InLevelRange(norm.normalized.minLevel)
        /\ InLevelRange(norm.normalized.maxLevel)
        /\ NumberLeq(norm.normalized.minLevel, norm.normalized.maxLevel)

-----------------------------------------------------------------------------
(* stripChars and the link of an item (SpecStrip).                         *)

MaxTextLen == 3     \* characters of a heading text given to stripChars
MaxChars == 3       \* entries of a remove_chars list

TextAlphabet == {"a", "b", "-"}
CharEntries == {"a", "c", "-", "^"}

RECURSIVE SeqsOfLen(_, _)
SeqsOfLen(S, n) ==
    IF n = 0 THEN {<<>>}
    ELSE {Append(q, x) : q \in SeqsOfLen(S, n - 1), x \in S}

SeqsUpTo(S, n) == UNION {SeqsOfLen(S, k) : k \in 0..n}

\* A remove_chars list whose entries are these characters.
CharsList(cs) == [k \in 1..Len(cs) |-> JsStr(<<cs[k]>>)]

\* The link of an item, the outcome of stripChars known.
StripLinked(heading, display) ==
    [ok |-> display.ok,
     text |-> display.text,
     href |-> LinkTarget(heading, display.text)]

\* const displayHeading = stripChars(heading.heading, config.remove_chars);
\* item.createEl("a", {text: displayHeading, href: `#${heading.heading}`})
StripApply ==
    /\ strip.pc = "start"
    /\ strip' = [pc |-> "done", heading |-> strip.heading, chars |-> strip.chars,
                 link |-> StripLinked(strip.heading,
                                      stripChars(strip.heading.heading, strip.chars))]
    /\ UNCHANGED <<docs, blocks, renders, figletAPI, log, norm, parse, rt>>

InitStrip ==
    /\ strip \in {[pc |-> "start", heading |-> [level |-> 1, heading |-> t],
                   chars |-> CharsList(cs)] :
                    t \in SeqsUpTo(TextAlphabet, MaxTextLen),
                    cs \in SeqsUpTo(CharEntries, MaxChars)}
    /\ docs = Off /\ blocks = Off /\ renders = Off /\ figletAPI = Off /\ log = Off
    /\ norm = Off /\ parse = Off /\ rt = Off

NextStrip == StripApply

SpecStrip == InitStrip /\ [][NextStrip]_vars

\* The characters a remove_chars list names.
ListedChars(chars) == {chars[k].s[1] : k \in 1..Len(chars)}

\* text without the characters of the set cs.
Without(text, cs) == SelectSeq(text, LAMBDA c : c \notin cs)

\* C9: the displayed text of an item is the heading text without every
\* occurrence of each character of remove_chars and with every other
\* character kept (an entry is a literal character, never a range or an
\* operator), and the link target is "#" and the unstripped heading text.
C9_LiteralStripping ==
    strip.pc = "done" =>
        /\ strip.link.ok
        /\ strip.link.text = Without(strip.heading.heading, ListedChars(strip.chars))
        /\ strip.link.href = <<"#">> \o strip.heading.heading

-----------------------------------------------------------------------------
(* parseTocConfig on blocks with separator lines (SpecParse).              *)

MaxLines == 4       \* lines of a block given to parseTocConfig

LineTexts ==
    { <<"-", "-", "-">>,
      <<" ", "-", "-", "-", " ">>,
      <<"m", "i", "n", "L", "e", "v", "e", "l", ":", " ", "2">>,
      <<"H", "e", "l", "l", "o">>,
      <<>> }

\* parseTocConfig(source, plugin)
ParseApply ==
    /\ parse.pc = "start"
    /\ parse' = [pc |-> "done", source |-> parse.source,
                 out |-> parseTocConfig(parse.source)]
    /\ UNCHANGED <<docs, blocks, renders, figletAPI, log, norm, strip, rt>>

InitParse ==
    /\ parse \in {[pc |-> "start", source |-> JoinLines(ls)] :
                    ls \in SeqsUpTo(LineTexts, MaxLines)}
    /\ docs = Off /\ blocks = Off /\ renders = Off /\ figletAPI = Off /\ log = Off
    /\ norm = Off /\ strip = Off /\ rt = Off

NextParse == ParseApply

SpecParse == InitParse /\ [][NextParse]_vars

\* The 1-based positions of the lines whose trimmed content is "---", all of
\* them and those after the first line.
SeparatorLines(lines) == {i \in 1..Len(lines) : Trim(lines[i]) = <<"-", "-", "-">>}
LaterSeparatorLines(lines) == SeparatorLines(lines) \ {1}

Lowest(S) == CHOOSE i \in S : \A j \in S : i <= j

\* What the block is split into when the line at position sep (0: none) is
\* the separator: the config lines and the decorative text.
SplitAt(lines, sep) ==
    IF sep = 0 THEN [configLines |-> lines, text |-> <<>>]
    ELSE [configLines |-> SubSeq(lines, 1, sep - 1),
          text |-> Trim(JoinLines(SubSeq(lines, sep + 1, Len(lines))))]

\* The split parseTocConfig made: the lines it parsed as config lines and
\* the decorative text it produced.
SplitMade(out) == [configLines |-> out.configLines, text |-> FigletText(out.config.figlet)]

\* Every line that set a key is one of the config lines.
UsedWithin(out) ==
    \A k \in 1..Len(out.used) : \E j \in 1..Len(out.configLines) : out.configLines[j] = out.used[k]

\* C10 as stated: the separator is the first line at index > 0 whose trimmed
\* content is "---"; the lines before it are the config lines, the lines
\* after it joined and trimmed are the decorative text, and without such a
\* line the whole input is config and there is no decorative text.
C10_SeparatorAfterFirstLine ==
    parse.pc = "done" =>
        /\ UsedWithin(parse.out)
        /\ SplitMade(parse.out) =
             SplitAt(parse.out.lines,
                     IF LaterSeparatorLines(parse.out.lines) = {} THEN 0
                     ELSE Lowest(LaterSeparatorLines(parse.out.lines)))

\* The position of the separator: the first line of all whose trimmed
\* content is "---", provided it is not the first line of the block.
SeparatorPosition(lines) ==
    IF SeparatorLines(lines) = {} \/ Lowest(SeparatorLines(lines)) = 1 THEN 0
    ELSE Lowest(SeparatorLines(lines))

\* C10, amended: the separator is the first line whose trimmed content is
\* "---", and it counts only when its index is > 0; then the lines before
\* it are the config lines and the lines after it (later "---" lines
\* included) joined and trimmed are the decorative text when non-empty.
\* Without such a line, or when the first such line is the first line of
\* the block, the whole input is config and there is no decorative text.
C10_FirstSeparatorLine ==
    parse.pc = "done" =>
        /\ UsedWithin(parse.out)
        /\ SplitMade(parse.out) = SplitAt(parse.out.lines, SeparatorPosition(parse.out.lines))

\* C10's case: a separator after the first line, a later "---" line after it
\* and decorative text produced.
C10_Witness ==
    /\ parse.pc = "done"
    /\ parse.out.separatorLineIndex > 0
    /\ FigletText(parse.out.config.figlet) # <<>>
    /\ \E i \in SeparatorLines(parse.out.lines) : i > parse.out.separatorLineIndex + 1
    /\ parse.out.used # <<>>

\* The block's first line is a "---" line.
FirstLineIsSeparator(lines) == lines # <<>> /\ Trim(lines[1]) = SeparatorText

\* A line that sets a key: not blank, not a comment, with a ":" that has a
\* non-empty key before it and a non-empty value after it.
IsAssignment(line) ==
    /\ Trim(line) # <<>>
    /\ Head(Trim(line)) # "#"
    /\ IndexOf(Trim(line), ":") > 0
    /\ Trim(SubSeq(Trim(line), 1, IndexOf(Trim(line), ":") - 1)) # <<>>
    /\ Trim(SubSeq(Trim(line), IndexOf(Trim(line), ":") + 1, Len(Trim(line)))) # <<>>

\* C11 as stated: when the first line of the input is "---", no line sets a
\* config key and the input (with or without its first line) is the
\* decorative text.
C11_FirstLineSeparatorAllDecorative ==
    parse.pc = "done" /\ FirstLineIsSeparator(parse.out.lines) =>
        /\ parse.out.used = <<>>
        /\ FigletText(parse.out.config.figlet) \in
             {Trim(JoinLines(parse.out.lines)), Trim(JoinLines(Tail(parse.out.lines)))}

\* C11, amended: when the first line of the input is "---", the whole input
\* is the config section and there is no decorative text: every line, the
\* lines after a later "---" line included, is a config line, each line of
\* the form key: value sets its key, and no decorative title is produced.
C11_FirstLineSeparatorAllConfig ==
    parse.pc = "done" /\ FirstLineIsSeparator(parse.out.lines) =>
        /\ parse.out.configLines = parse.out.lines
        /\ parse.out.used = SelectSeq(parse.out.lines, IsAssignment)
        /\ parse.out.config.figlet = JsUndef

\* C11's case: "---" on the first line, another "---" line later, and a
\* key: value line and a text line after that one.
C11_Witness ==
    /\ parse.pc = "done"
    /\ FirstLineIsSeparator(parse.out.lines)
    /\ \E i \in LaterSeparatorLines(parse.out.lines) :
         /\ \E j \in (i + 1)..Len(parse.out.lines) : IsAssignment(parse.out.lines[j])
         /\ \E j \in (i + 1)..Len(parse.out.lines) : parse.out.lines[j] = <<"H", "e", "l", "l", "o">>
    /\ parse.out.config.minLevel = JsNum(2)

-----------------------------------------------------------------------------
(* parseConfigValue on its own (SpecValue): the raw values are the non-empty *)
(* texts over a small alphabet with both quote characters.                   *)

MaxValueLen == 3    \* characters of a raw value given to parseConfigValue

ValueAlphabet == {"'", "\"", "a", "1", "["}

\* const value = parseConfigValue(rawValue), rawValue trimmed and non-empty
ValueApply ==
    /\ parse.pc = "raw"
    /\ parse' = [pc |-> "value", raw |-> parse.raw, out |-> parseConfigValue(parse.raw)]
    /\ UNCHANGED <<docs, blocks, renders, figletAPI, log, norm, strip, rt>>

InitValue ==
    /\ parse \in {[pc |-> "raw", raw |-> r] : r \in SeqsUpTo(ValueAlphabet, MaxValueLen) \ {<<>>}}
    /\ docs = Off /\ blocks = Off /\ renders = Off /\ figletAPI = Off /\ log = Off
    /\ norm = Off /\ strip = Off /\ rt = Off

NextValue == ValueApply

SpecValue == InitValue /\ [][NextValue]_vars

\* A raw value that is not structured, boolean or numeric.
IsPlainValue(raw) ==
    /\ Head(raw) \notin {"[", "{"}
    /\ ToLowerCase(raw) \notin {<<"t", "r", "u", "e">>, <<"f", "a", "l", "s", "e">>}
    /\ ~IsNumberLiteral(raw)

\* The value is enclosed in one matching pair of quotes.
InMatchingQuotes(raw) ==
    /\ Len(raw) >= 2
    /\ IsQuote(Head(raw))
    /\ raw[Len(raw)] = Head(raw)

\* C17: a plain value enclosed in one matching pair of single or double
\* quotes is returned without the pair; every other plain value, one with a
\* quote at one end only or with different quotes at its ends included, is
\* returned unchanged.
C17_MatchingQuotesOnly ==
    parse.pc = "value" /\ IsPlainValue(parse.raw) =>
        parse.out = JsStr(IF InMatchingQuotes(parse.raw)
                          THEN SubSeq(parse.raw, 2, Len(parse.raw) - 1)
                          ELSE parse.raw)

-----------------------------------------------------------------------------
(* Properties of the renderer (SpecRender).                                *)

RtRunning == rt.pc \in {"loop", "done"}

\* The heading an item shows: its data-level and the target of its link.
ShownHeading(item) == [level |-> item.level, heading |-> Tail(item.href)]

\* The headings of the items in displayed order.
ShownInOrder(tree, order) ==
    [k \in 1..Len(order) |-> ShownHeading(tree.items[order[k]])]

DisplayedHeadings(tree) == ShownInOrder(tree, DisplayOrder(tree))

\* C3: when renderToc has returned, there is one item per filtered heading
\* and the items read in displayed order (pre-order of the nested lists) are
\* the filtered headings in document order.
C3_DisplayedInDocumentOrder ==
    rt.pc = "done" /\ ~rt.empty =>
        /\ Len(rt.st.items) = Len(rt.filtered)
        /\ DisplayedHeadings(rt.st) = rt.filtered

\* The parts of s between the occurrences of c.
RECURSIVE SplitOn(_, _, _)
SplitOn(s, c, cur) ==
    IF s = <<>> THEN <<cur>>
    ELSE IF Head(s) = c THEN <<cur>> \o SplitOn(Tail(s), c, <<>>)
    ELSE SplitOn(Tail(s), c, Append(cur, Head(s)))

\* The numbers a label such as 2.1.3 is made of.
LabelParts(parts) == [k \in 1..Len(parts) |-> DigitsValue(parts[k])]
LabelNumbers(label) == LabelParts(SplitOn(label, ".", <<>>))

\* The label of an item: the text of its number span without the space.
LabelOf(item) == SubSeq(item.number, 1, Len(item.number) - 1)

CounterAt(prev, i) == IF i <= Len(prev) THEN prev[i] ELSE 0

\* The outline rule: after a heading at depth D the counters are those at
\* indices 0..D, deeper ones discarded, the one at D incremented (a counter
\* that was never set counts as 0).
OutlineStep(prev, D) ==
    [i \in 1..(D + 1) |-> IF i = D + 1 THEN CounterAt(prev, i) + 1 ELSE CounterAt(prev, i)]

\* a < b, lexicographically, for two sequences of numbers.
RECURSIVE LexLess(_, _)
LexLess(a, b) ==
    IF b = <<>> THEN FALSE
    ELSE IF a = <<>> THEN TRUE
    ELSE IF Head(a) # Head(b) THEN Head(a) < Head(b)
    ELSE LexLess(Tail(a), Tail(b))

NumbersOfItem(items, k) == IF k = 0 THEN <<>> ELSE LabelNumbers(LabelOf(items[k]))

LevelsOf(headings) == [k \in 1..Len(headings) |-> headings[k].level]
LabelsOf(items) == [k \in 1..Len(items) |-> LabelOf(items[k])]

ExampleLabels ==
    << <<"1">>, <<"1", ".", "1">>, <<"1", ".", "2">>, <<"2">>, <<"2", ".", "1">> >>

\* C4: with numbered set, every item's label is the outline rule applied to
\* the label before it at depth level - minLevel; the levels 1,2,2,1,2 with
\* minLevel 1 are labelled 1, 1.1, 1.2, 2, 2.1; and the labels are pairwise
\* distinct and strictly increasing in document order.
C4_OutlineNumbering ==
    RtRunning /\ IsNumbered(rt.config) =>
        /\ \A k \in 1..Len(rt.st.items) :
              NumbersOfItem(rt.st.items, k) =
                  OutlineStep(NumbersOfItem(rt.st.items, k - 1),
                              rt.st.items[k].level - LevelNumber(rt.config.minLevel))
        /\ \A j, k \in 1..Len(rt.st.items) :
              j < k => /\ rt.st.items[j].number # rt.st.items[k].number
                       /\ LexLess(NumbersOfItem(rt.st.items, j),
                                  NumbersOfItem(rt.st.items, k))
        /\ (rt.pc = "done" /\ LevelsOf(rt.filtered) = <<1, 2, 2, 1, 2>>
            /\ rt.config.minLevel.n = 1)
           => LabelsOf(rt.st.items) = ExampleLabels

\* C4's case: the example sequence rendered with numbering.
C4_Witness ==
    /\ rt.pc = "done" /\ IsNumbered(rt.config)
    /\ LevelsOf(rt.filtered) = <<1, 2, 2, 1, 2>>
    /\ rt.config.minLevel.n = 1
    /\ Len(rt.st.items) = 5

ShapesOf(items) == [k \in 1..Len(items) |-> items[k].shape]

\* C8: without numbering and with shapes, the i-th filtered heading (0-based,
\* whatever its depth) has the marker shapes[i mod len(shapes)], so five
\* headings with shapes > and - are marked >,-,>,-,>; with numbering no item
\* has a shape marker.
C8_ShapeCycling ==
    RtRunning =>
        /\ \A k \in 1..Len(rt.st.items) :
              /\ rt.st.items[k].level = rt.filtered[k].level
              /\ IsNumbered(rt.config) => ~rt.st.items[k].hasShape
              /\ IsShaped(rt.config) =>
                    /\ rt.st.items[k].hasShape
                    /\ rt.st.items[k].shape =
                         JsToString(rt.config.shapes.a[((k - 1) % Len(rt.config.shapes.a)) + 1])
        /\ (IsShaped(rt.config) /\ rt.config.shapes = ShapesValue
            /\ Len(rt.st.items) = 5)
           => ShapesOf(rt.st.items) = << <<">">>, <<"-">>, <<">">>, <<"-">>, <<">">> >>

\* C8's case: five shaped items at more than one depth.
C8_Witness ==
    /\ rt.pc = "done" /\ IsShaped(rt.config) /\ rt.config.shapes = ShapesValue
    /\ Len(rt.st.items) = 5
    /\ \E j, k \in 1..5 : rt.st.items[j].list # rt.st.items[k].list

\* The number a tracked level stands for.
LevelValue(level) == ToNumber(ToPrimitive(level))

\* C18: at every point of the loop the stack is non-empty with the root
\* frame (minLevel, root list) at its bottom, the current level is the level
\* of the top frame, and it is minLevel + (stack depth - 1), so that every
\* push and every pop, one frame each, changes it by exactly 1.
C18_StackTracksLevel ==
    RtRunning /\ ~rt.empty =>
        /\ rt.st.stack # <<>>
        /\ rt.st.stack[1] = [level |-> rt.config.minLevel, list |-> 1]
        /\ rt.st.currentLevel = rt.st.stack[Len(rt.st.stack)].level
        /\ LevelValue(rt.st.currentLevel) =
             NumOf(LevelNumber(rt.config.minLevel) + Len(rt.st.stack) - 1, 1)

\* The item whose sub-list holds item k; 0 for an item of the root list.
ParentItem(st, k) == st.lists[st.items[k].list].parent

\* C19: every item placed in a sub-list of another item has a heading level
\* strictly greater than that item's level, whatever the filtered headings
\* and minLevel are, a first heading deeper than minLevel included.
C19_NestedUnderShallower ==
    RtRunning /\ ~rt.empty =>
        \A k \in 1..Len(rt.st.items) :
            ParentItem(rt.st, k) # 0 =>
                rt.st.items[k].level > rt.st.items[ParentItem(rt.st, k)].level

\* Labels of a numbered list have no component below 1.
NoZeroComponent(label) ==
    \A j \in 1..Len(LabelNumbers(label)) : LabelNumbers(label)[j] >= 1

\* C20: with numbered set, every component of every label is at least 1,
\* whatever the filtered headings are: a first heading deeper than minLevel
\* or a descent that skips levels puts no 0 in a label.
C20_NoZeroInLabels ==
    RtRunning /\ ~rt.empty /\ IsNumbered(rt.config) =>
        \A k \in 1..Len(rt.st.items) : NoZeroComponent(LabelOf(rt.st.items[k]))


====
